---- MODULE Spec2Model ----
(***************************************************************************)
(* Inventory ledger of the product catalog backend.                        *)
(*                                                                         *)
(* The database tables products, inventory_adjustments and                 *)
(* low_stock_alerts are the state.  The operations are those of the        *)
(* Inventory model (createAdjustment, bulkAdjustments, checkLowStockAlert, *)
(* resolveAlert) and the Product model operations that touch the same      *)
(* tables (update, delete).  The Inventory model is written against the    *)
(* synchronous driver API (db.prepare(..).get/run, db.transaction), so a   *)
(* model call runs to completion without another request in between, and   *)
(* db.transaction(fn) commits when fn returns and rolls back when fn       *)
(* throws.                                                                 *)
(*                                                                         *)
(* The shop front next to it: the tables categories, wishlist_items and    *)
(* cart_items with the operations of the Category, Wishlist and Cart       *)
(* models.                                                                 *)
(*                                                                         *)
(* Columns that no modelled operation reads (name, sku, price, created_at, *)
(* updated_at) are left out of the rows.  Row order in a table is          *)
(* insertion order.  generateId is a fresh-value source: one counter per   *)
(* prefix.                                                                 *)
(*                                                                         *)
(* Specifications:                                                         *)
(*   SpecLedger  sequences of createAdjustment calls, every type           *)
(*   SpecAlerts  createAdjustment and resolveAlert calls                   *)
(*   SpecReplay  createAdjustment calls of every type and batches          *)
(*   SpecScenario  createAdjustment calls on the product of the scenario   *)
(*   Spec        adjustments, batches, alert resolution and the clock      *)
(*   SpecBulk    sequences of bulkAdjustments calls                        *)
(*   SpecBulkTx  bulkAdjustments entry by entry, with interruption         *)
(*   SpecStore   adjustments, alert resolution, Product.update and delete  *)
(*   SpecHttp    POST /api/admin/inventory/adjustments and model calls     *)
(*   SpecHttpBulk     the bulk request next to model calls                 *)
(*   SpecHttpResolve  the resolve request next to model calls              *)
(*   SpecCategory  Category.create, the category update requests and the   *)
(*               queries over the hierarchy                                *)
(*   SpecWishlist  Wishlist.addItem and Wishlist.removeItem calls          *)
(*   SpecCart    Cart.addItem calls, lookup and write as separate steps    *)
(*   SpecTx      createAdjustment statement by statement, several calls    *)
(*               in progress, with interruption inside the transaction     *)
(***************************************************************************)
EXTENDS Integers, Sequences, FiniteSets, TLC

(***************************************************************************)
(* Bounds of the model.                                                    *)
(***************************************************************************)
MaxAdj == 2
MaxTime == 2
MaxBatch == 2
MaxCalls == 2
MaxBulk == 3
MaxCat == 3
MaxQty == 4

(***************************************************************************)
(* Program constants.                                                      *)
(***************************************************************************)
DefaultLowThreshold == 20

validTypes == {"purchase", "sale", "return", "damage", "theft", "adjustment", "transfer"}

ErrInvalidType == "Invalid adjustment type"
ErrNotFound == "Product not found"
ErrInsufficient == "Insufficient stock for this adjustment"
ErrInsufficientTransfer == "Insufficient stock for transfer"
NoError == "none"

(***************************************************************************)
(* Input domains.                                                          *)
(***************************************************************************)
ProductIds == {"p1", "p2"}
UnknownId == "p9"
CallIds == ProductIds \cup {UnknownId}
Quantities == {-1, 0, 2}
Meta1 == [reason |-> "count", notes |-> "NULL", createdBy |-> "admin"]
Meta2 == [reason |-> "restock", notes |-> "dock 4", createdBy |-> "u7"]

Call(p, t, q, m) ==
  [productId |-> p, type |-> t, quantity |-> q,
   reason |-> m.reason, notes |-> m.notes, createdBy |-> m.createdBy]

\* the calls of the ledger specification: every type and quantity on p1, calls
\* on p2, a type that is not valid and a product that does not exist
AdjustmentData ==
  { Call("p1", t, q, Meta1) : t \in validTypes, q \in Quantities }
  \cup { Call("p2", t, 2, Meta2) : t \in {"sale", "purchase", "adjustment"} }
  \cup { Call("p1", "bogus", 2, Meta1), Call(UnknownId, "sale", 2, Meta2),
         Call(UnknownId, "bogus", 2, Meta2) }

\* the calls of the specifications that also resolve alerts or edit products
SmallCalls ==
  { Call("p1", "sale", 2, Meta1), Call("p1", "purchase", 2, Meta1),
    Call("p1", "adjustment", 2, Meta1), Call("p2", "sale", 2, Meta2),
    Call(UnknownId, "sale", 2, Meta2) }

\* the entries a batch is made of
BatchEntries == { Call("p1", "sale", 2, Meta1), Call("p1", "bogus", 2, Meta1) }

Batches == UNION { [1..k -> BatchEntries] : k \in 1..MaxBatch }

\* the calls of the replay specification: every type with a positive and a
\* negative amount on p1, and a call on p2
ReplayData ==
  { Call("p1", t, q, Meta1) : t \in validTypes, q \in {-1, 2} }
  \cup { Call("p2", "sale", 2, Meta2) }

\* the calls of the scenario specification: every type, amounts 5 and 10
ScenarioCalls == { Call("p2", t, q, Meta2) : t \in validTypes, q \in {5, 10} }

\* the entries of the batches of the batch specifications: on p1 the first
\* sale succeeds and a second one exceeds the stock
BulkCalls ==
  { Call("p1", "sale", 2, Meta1), Call("p1", "bogus", 2, Meta1),
    Call(UnknownId, "sale", 2, Meta2), Call("p2", "sale", 2, Meta2) }

BulkBatches == UNION { [1..k -> BulkCalls] : k \in 1..MaxBulk }

\* the batches of the specification of the steps of a batch
StepBatches ==
  UNION { [1..k -> { Call("p1", "sale", 2, Meta1), Call("p1", "bogus", 2, Meta1),
                     Call("p2", "sale", 2, Meta2) }] : k \in 1..MaxBatch }

\* the calls of the specification of the transaction steps
TxCalls ==
  { Call("p1", "sale", 2, Meta1), Call("p1", "purchase", 2, Meta1),
    Call("p2", "sale", 2, Meta2), Call("p1", "bogus", 2, Meta1),
    Call(UnknownId, "sale", 2, Meta2) }

\* the bodies of the POST /api/admin/inventory/adjustments requests: a product
\* id as the program generates it or in UUID format, a valid or invalid type,
\* an amount below or above the stock, and bodies with one field left out
Fields == {"productId", "type", "quantity", "reason"}

Uuids == {"u1"}

FullBodies ==
  [present : {Fields}, productId : {"p1"} \cup Uuids, type : {"sale", "bogus"},
   quantity : {2, 5}, reason : {"count"}]

Without(body, field) == [body EXCEPT !.present = @ \ {field}]

Bodies ==
  FullBodies
  \cup { Without([present |-> Fields, productId |-> "u1", type |-> "sale", quantity |-> 2,
                  reason |-> "count"], field) : field \in Fields }

NoBody == [present |-> {}, productId |-> "none", type |-> "none", quantity |-> 0,
           reason |-> "none"]

\* the bodies of the POST /api/admin/inventory/adjustments/bulk requests
BulkBodies ==
  { [present |-> Fields, productId |-> "u1", type |-> "sale", quantity |-> 2,
     reason |-> "count"],
    [present |-> Fields, productId |-> "p1", type |-> "sale", quantity |-> 2,
     reason |-> "count"],
    [present |-> Fields \ {"reason"}, productId |-> "u1", type |-> "sale", quantity |-> 2,
     reason |-> "count"] }

HttpBatches == UNION { [1..k -> BulkBodies] : k \in 1..MaxBatch }

\* the alert ids of the PUT /api/admin/inventory/alerts/:alertId/resolve
\* requests, in UUID format or as the program generates them, and the notes
UuidAlert == [prefix |-> "uuid", n |-> 1]

NotesSent == {"none", "checked"}

\* the stock objects Product.update is called with
StockUpdates ==
  { [quantity |-> 0], [lowStockThreshold |-> 3, reorderLevel |-> 3] }

NoTime == 0
NoId == [prefix |-> "none", n |-> 0]
NoData == [productId |-> UnknownId, type |-> "none", quantity |-> 0,
           reason |-> "none", notes |-> "NULL", createdBy |-> "none"]

VARIABLES
  products,               \* table products: id -> row
  inventory_adjustments,  \* table inventory_adjustments, in insertion order
  low_stock_alerts,       \* table low_stock_alerts, in insertion order
  uuid,                   \* generateId: ids handed out so far, per prefix
  now,                    \* datetime('now')
  result,                 \* what the last call returned or threw
  succeeded,              \* per product, the createAdjustment calls that returned
  calls,                  \* createAdjustment calls in progress: position and locals
  txOwner,                \* the call whose transaction is open, 0 when none is
  snapshot,               \* the database when the open transaction began
  bulk,                   \* the bulkAdjustments call in progress: position and results
  response,               \* the answer to the last HTTP request
  categories,             \* table categories, in insertion order
  wishlist_items,         \* table wishlist_items, in insertion order
  cart_items,             \* table cart_items, in insertion order
  carts,                  \* Cart.addItem calls between their lookup and their write
  added                   \* per session and product, the quantities added by Cart.addItem

vars == <<products, inventory_adjustments, low_stock_alerts, uuid, now, result, succeeded,
          calls, txOwner, snapshot, bulk, response, categories, wishlist_items,
          cart_items, carts, added>>

\* the tables of the shop front and the cart calls in progress
shop == <<categories, wishlist_items, cart_items, carts, added>>

\* the tables of the inventory and the calls on them
inventory == <<products, inventory_adjustments, low_stock_alerts, uuid, now, succeeded,
               calls, txOwner, snapshot, bulk, response>>

txvars == <<calls, txOwner, snapshot>>

txframe == <<now, result, succeeded, bulk, response, shop>>

(***************************************************************************)
(* The database as one value, for the operators that transform it.         *)
(***************************************************************************)
DB == [products |-> products, adjustments |-> inventory_adjustments,
       alerts |-> low_stock_alerts, uuid |-> uuid]

RECURSIVE SelectSeq2(_, _, _)
\* rows of table s whose field product_id differs from id (DELETE ... CASCADE)
SelectSeq2(s, id, i) ==
  IF i > Len(s) THEN <<>>
  ELSE IF s[i].product_id = id THEN SelectSeq2(s, id, i + 1)
       ELSE <<s[i]>> \o SelectSeq2(s, id, i + 1)

(***************************************************************************)
(* Inventory.calculateStockStatus(quantity, lowThreshold = 20)             *)
(***************************************************************************)
calculateStockStatus(quantity, lowThreshold) ==
  IF quantity = 0 THEN "out_of_stock"
  ELSE IF quantity <= lowThreshold THEN "low_stock"
  ELSE "in_stock"

(***************************************************************************)
(* The threshold createAdjustment hands to calculateStockStatus: the call  *)
(* passes one argument, so the parameter takes its default.                *)
(***************************************************************************)
StatusThreshold(product) == DefaultLowThreshold

(***************************************************************************)
(* generateId(prefix)                                                      *)
(***************************************************************************)
generateId(D, prefix) == [prefix |-> prefix, n |-> D.uuid[prefix] + 1]

Generated(D, prefix) == [D EXCEPT !.uuid[prefix] = @ + 1]

\* existingAlert reading the rows with is_resolved = 1 instead of 0
existingAlertResolved(D, productId, alertType) ==
  \E i \in 1..Len(D.alerts) :
     /\ D.alerts[i].product_id = productId
     /\ D.alerts[i].alert_type = alertType
     /\ D.alerts[i].is_resolved = 1

(***************************************************************************)
(* SELECT id FROM low_stock_alerts WHERE product_id = ? AND alert_type = ? *)
(* AND is_resolved = 0                                                     *)
(***************************************************************************)
existingAlert(D, productId, alertType) ==
  \E i \in 1..Len(D.alerts) :
     /\ D.alerts[i].product_id = productId
     /\ D.alerts[i].alert_type = alertType
     /\ D.alerts[i].is_resolved = 0

\* InsertAlert that reopens a resolved alert of the product and type instead
\* of inserting a row
InsertAlertReopen(D, productId, alertType, quantity, threshold) ==
  LET old == { i \in 1..Len(D.alerts) :
                 /\ D.alerts[i].product_id = productId
                 /\ D.alerts[i].alert_type = alertType }
      row == [id |-> generateId(D, "alert"), product_id |-> productId,
              alert_type |-> alertType, current_quantity |-> quantity,
              threshold |-> threshold, is_resolved |-> 0, resolved_at |-> NoTime]
  IN  IF old = {} THEN [Generated(D, "alert") EXCEPT !.alerts = Append(@, row)]
      ELSE [D EXCEPT !.alerts = [i \in 1..Len(D.alerts) |->
                        IF i \in old
                        THEN [D.alerts[i] EXCEPT !.is_resolved = 0, !.resolved_at = NoTime,
                                                 !.current_quantity = quantity]
                        ELSE D.alerts[i]]]

InsertAlert(D, productId, alertType, quantity, threshold) ==
  LET row == [id |-> generateId(D, "alert"), product_id |-> productId,
              alert_type |-> alertType, current_quantity |-> quantity,
              threshold |-> threshold, is_resolved |-> 0, resolved_at |-> NoTime]
  IN  [Generated(D, "alert") EXCEPT !.alerts = Append(@, row)]

\* CheckAlertType comparing with < instead of <=
CheckAlertTypeStrict(D, productId, alertType, quantity, threshold) ==
  IF quantity < threshold /\ ~existingAlert(D, productId, alertType)
  THEN InsertAlert(D, productId, alertType, quantity, threshold)
  ELSE D

(***************************************************************************)
(* One branch of checkLowStockAlert: the alert of one type.                *)
(***************************************************************************)
CheckAlertType(D, productId, alertType, quantity, threshold) ==
  IF quantity <= threshold /\ ~existingAlert(D, productId, alertType)
  THEN InsertAlert(D, productId, alertType, quantity, threshold)
  ELSE D

\* checkLowStockAlert that also closes the alerts whose threshold the quantity
\* has risen above
checkLowStockAlertAutoResolve(D, productId, quantity) ==
  IF productId \notin DOMAIN D.products THEN D
  ELSE
    LET product == D.products[productId]
        D0 == [D EXCEPT !.alerts = [i \in 1..Len(D.alerts) |->
                  IF D.alerts[i].product_id = productId /\ quantity > D.alerts[i].threshold
                  THEN [D.alerts[i] EXCEPT !.is_resolved = 1]
                  ELSE D.alerts[i]]]
        D1 == CheckAlertType(D0, productId, "low_stock", quantity, product.stock_low_threshold)
    IN  CheckAlertType(D1, productId, "reorder", quantity, product.reorder_level)

(***************************************************************************)
(* Inventory.checkLowStockAlert(productId, quantity)                       *)
(***************************************************************************)
checkLowStockAlert(D, productId, quantity) ==
  IF productId \notin DOMAIN D.products THEN D
  ELSE
    LET product == D.products[productId]
        D1 == CheckAlertType(D, productId, "low_stock", quantity, product.stock_low_threshold)
    IN  CheckAlertType(D1, productId, "reorder", quantity, product.reorder_level)

\* NewQuantity with the adjustment type applied as a delta
NewQuantityRelative(type, stock, quantity) ==
  CASE type \in {"purchase", "return", "adjustment", "transfer"} -> stock + quantity
    [] type \in {"sale", "damage", "theft"} -> stock - quantity
    [] OTHER -> stock

\* QuantityError without the check of the sale, damage and theft branch
QuantityErrorTransferOnly(type, newQuantity) ==
  CASE type = "transfer" /\ newQuantity < 0 -> ErrInsufficientTransfer
    [] OTHER -> NoError

(***************************************************************************)
(* The switch of createAdjustment: the new quantity, and whether the       *)
(* branch throws.                                                          *)
(***************************************************************************)
NewQuantity(type, stock, quantity) ==
  CASE type \in {"purchase", "return"} -> stock + quantity
    [] type \in {"sale", "damage", "theft"} -> stock - quantity
    [] type = "adjustment" -> quantity
    [] type = "transfer" -> stock + quantity
    [] OTHER -> stock

QuantityError(type, newQuantity) ==
  CASE type \in {"sale", "damage", "theft"} /\ newQuantity < 0 -> ErrInsufficient
    [] type = "transfer" /\ newQuantity < 0 -> ErrInsufficientTransfer
    [] OTHER -> NoError

(***************************************************************************)
(* The statements of the transaction body of createAdjustment.             *)
(***************************************************************************)
\* UpdateProduct that writes the quantity and leaves the status
UpdateProductQuantityOnly(D, productId, newQuantity) ==
  [D EXCEPT !.products[productId].stock_quantity = newQuantity]

UpdateProduct(D, productId, newQuantity) ==
  [D EXCEPT !.products[productId].stock_quantity = newQuantity,
            !.products[productId].stock_status =
               calculateStockStatus(newQuantity, StatusThreshold(D.products[productId]))]

\* LedgerRow with the reason and notes parameters bound in the wrong order
LedgerRowSwapped(id, data) ==
  [id |-> id, product_id |-> data.productId, adjustment_type |-> data.type,
   quantity |-> data.quantity, reason |-> data.notes, notes |-> data.reason,
   created_by |-> data.createdBy]

LedgerRow(id, data) ==
  [id |-> id, product_id |-> data.productId, adjustment_type |-> data.type,
   quantity |-> data.quantity, reason |-> data.reason, notes |-> data.notes,
   created_by |-> data.createdBy]

\* InsertAdjustment that logs the magnitude of the amount
InsertAdjustmentAbs(D, data) ==
  LET magnitude == IF data.quantity < 0 THEN 0 - data.quantity ELSE data.quantity
  IN  [Generated(D, "adj") EXCEPT
         !.adjustments = Append(@, LedgerRow(generateId(D, "adj"),
                                             [data EXCEPT !.quantity = magnitude]))]

InsertAdjustment(D, data) ==
  [Generated(D, "adj") EXCEPT !.adjustments = Append(@, LedgerRow(generateId(D, "adj"), data))]

\* Thrown with the message of the error lost
ThrownGeneric(D, msg) == [db |-> D, ok |-> FALSE, error |-> "Error", id |-> NoId]

Thrown(D, msg) == [db |-> D, ok |-> FALSE, error |-> msg, id |-> NoId]

Returned(D, id) == [db |-> D, ok |-> TRUE, error |-> NoError, id |-> id]

(***************************************************************************)
(* Inventory.createAdjustment(data): the database after the call and what  *)
(* the call returned or threw.  A throw inside the transaction rolls the   *)
(* database back to D.                                                     *)
(***************************************************************************)
createAdjustment(D, data) ==
  IF data.type \notin validTypes THEN Thrown(D, ErrInvalidType)
  ELSE IF data.productId \notin DOMAIN D.products THEN Thrown(D, ErrNotFound)
  ELSE
    LET newQuantity == NewQuantity(data.type, D.products[data.productId].stock_quantity,
                                   data.quantity)
        err == QuantityError(data.type, newQuantity)
        D1 == UpdateProduct(D, data.productId, newQuantity)
        D2 == InsertAdjustment(D1, data)
        D3 == checkLowStockAlert(D2, data.productId, newQuantity)
    IN  IF err # NoError THEN Thrown(D, err)
        ELSE Returned(D3, generateId(D1, "adj"))

(***************************************************************************)
(* Inventory.bulkAdjustments(adjustments): the entries applied in order,   *)
(* each in a try/catch, with one result per entry.                         *)
(***************************************************************************)
\* BulkResult reporting every entry as applied
BulkResultOptimistic(adjustment, r) ==
  [productId |-> adjustment.productId, success |-> TRUE, adjustmentId |-> r.id,
   error |-> NoError]

\* results.push({...}): the result of one entry
BulkResult(adjustment, r) ==
  [productId |-> adjustment.productId, success |-> r.ok, adjustmentId |-> r.id,
   error |-> r.error]

RECURSIVE bulkAdjustmentsAbort(_, _, _)
\* bulkAdjustments that stops applying entries at the first one that throws
bulkAdjustmentsAbort(D, adjustments, i) ==
  IF i > Len(adjustments) THEN [db |-> D, results |-> <<>>]
  ELSE
    LET r == createAdjustment(D, adjustments[i])
        rest == IF r.ok THEN bulkAdjustmentsAbort(r.db, adjustments, i + 1)
                ELSE [db |-> D,
                      results |-> [j \in 1..(Len(adjustments) - i) |->
                                     BulkResult(adjustments[i + j], Thrown(D, "aborted"))]]
    IN  [db |-> rest.db, results |-> <<BulkResult(adjustments[i], r)>> \o rest.results]

RECURSIVE bulkAdjustments(_, _, _)
bulkAdjustments(D, adjustments, i) ==
  IF i > Len(adjustments) THEN [db |-> D, results |-> <<>>]
  ELSE
    LET r == createAdjustment(D, adjustments[i])
        rest == bulkAdjustments(r.db, adjustments, i + 1)
    IN  [db |-> rest.db, results |-> <<BulkResult(adjustments[i], r)>> \o rest.results]

\* ResolvedRow that also clears the recorded quantity
ResolvedRowReset(row, time) ==
  [row EXCEPT !.is_resolved = 1, !.resolved_at = time, !.current_quantity = 0]

\* SET is_resolved = 1, resolved_at = datetime('now')
ResolvedRow(row, time) == [row EXCEPT !.is_resolved = 1, !.resolved_at = time]

\* resolveAlert that closes the oldest alert when the id matches none
resolveAlertFallback(D, alertId, time) ==
  LET match == { i \in 1..Len(D.alerts) : D.alerts[i].id = alertId }
      hit == IF match = {} /\ Len(D.alerts) > 0 THEN {1} ELSE match
  IN  [db |-> [D EXCEPT !.alerts = [i \in 1..Len(D.alerts) |->
                   IF i \in hit
                   THEN ResolvedRow(D.alerts[i], time)
                   ELSE D.alerts[i]]],
       changes |-> Cardinality(match)]

(***************************************************************************)
(* Inventory.resolveAlert(alertId): UPDATE ... WHERE id = ?                *)
(***************************************************************************)
resolveAlert(D, alertId, time) ==
  LET hit == { i \in 1..Len(D.alerts) : D.alerts[i].id = alertId }
  IN  [db |-> [D EXCEPT !.alerts = [i \in 1..Len(D.alerts) |->
                   IF i \in hit
                   THEN ResolvedRow(D.alerts[i], time)
                   ELSE D.alerts[i]]],
       changes |-> Cardinality(hit)]

(***************************************************************************)
(* The shop front: categories seeded by initializeSchema (two of the       *)
(* default categories, both roots), and empty wishlist and cart tables.    *)
(***************************************************************************)
CatId(n) == [prefix |-> "cat", n |-> n]

\* parent_id IS NULL
Null == NoId

defaultCategories ==
  << [id |-> CatId(1), parent_id |-> Null], [id |-> CatId(2), parent_id |-> Null] >>

SessionIds == {"s1", "s2"}

CartSlots == 1..2

IdleCart == [pc |-> "idle", sessionId |-> "none", productId |-> "none", quantity |-> 0,
             existing |-> NoId]

(***************************************************************************)
(* Initial state: two products, one with its own thresholds and one with   *)
(* the schema defaults, and empty ledger and alert tables.                 *)
(***************************************************************************)
InitProducts ==
  [p \in ProductIds |->
     IF p = "p1"
     THEN [stock_quantity |-> 3, stock_status |-> "in_stock",
           stock_low_threshold |-> 2, reorder_level |-> 1,
           category_id |-> CatId(1), status |-> "active"]
     ELSE [stock_quantity |-> 22, stock_status |-> "in_stock",
           stock_low_threshold |-> 20, reorder_level |-> 10,
           category_id |-> CatId(2), status |-> "active"]]

\* the data Category.create is called with: no parent, or the id of a
\* category that exists or does not exist yet
CategoryData == { [parentId |-> x] : x \in {Null} \cup { CatId(n) : n \in 1..MaxCat } }

\* data.parentId === undefined
Undefined == [prefix |-> "undefined", n |-> 0]

UuidCategory == [prefix |-> "uuid", n |-> 2]

\* the entries of the PUT /api/admin/categories/bulk requests
CategoryUpdates ==
  { [id |-> CatId(1), data |-> [parentId |-> CatId(3)]],
    [id |-> CatId(2), data |-> [parentId |-> CatId(1)]],
    [id |-> CatId(1), data |-> [parentId |-> CatId(1)]],
    [id |-> CatId(3), data |-> [parentId |-> Null]],
    [id |-> CatId(2), data |-> [parentId |-> Undefined]] }

UpdateLists == UNION { [1..k -> CategoryUpdates] : k \in 0..MaxBatch }

\* the PUT /api/admin/categories/:id requests: the id and the parentId
UpdateIds == {CatId(1), UuidCategory}

UpdateParents == {Undefined, CatId(2), UuidCategory, UuidAlert}

\* products as the catalog may hold them: stored in the seeded categories,
\* active or not
CatalogProducts == {InitProducts, [InitProducts EXCEPT !["p2"].status = "inactive"]}

NoResult ==
  [op |-> "none", data |-> NoData, ok |-> TRUE, error |-> NoError, id |-> NoId,
   results |-> <<>>, adjustments |-> <<>>, sessionId |-> "none"]

InitDB ==
  [products |-> InitProducts, adjustments |-> <<>>, alerts |-> <<>>,
   uuid |-> [prefix \in {"adj", "alert"} |-> 0]]

Slots == 1..MaxCalls

IdleCall ==
  [pc |-> "idle", data |-> NoData, newQuantity |-> 0, id |-> NoId, error |-> NoError,
   concurrent |-> FALSE, at |-> "none"]

IdleBulk == [pc |-> "idle", adjustments |-> <<>>, i |-> 1, results |-> <<>>]

NoResponse ==
  [status |-> 0, code |-> "none", invoked |-> FALSE, request |-> NoBody, batch |-> <<>>,
   notes |-> "none"]

\* every table but products, and the callers, before the first call
InitOther ==
  /\ inventory_adjustments = InitDB.adjustments
  /\ low_stock_alerts = InitDB.alerts
  /\ uuid = InitDB.uuid
  /\ now = 1
  /\ result = NoResult
  /\ succeeded = [p \in ProductIds |-> 0]
  /\ calls = [c \in Slots |-> IdleCall]
  /\ txOwner = 0
  /\ snapshot = InitDB
  /\ bulk = IdleBulk
  /\ response = NoResponse
  /\ categories = defaultCategories
  /\ wishlist_items = <<>>
  /\ cart_items = <<>>
  /\ carts = [c \in CartSlots |-> IdleCart]
  /\ added = [s \in SessionIds |-> [p \in ProductIds |-> 0]]

Init ==
  /\ products = InitDB.products
  /\ InitOther

\* the product of the documented scenario: quantity 25, low stock threshold
\* 20, reorder level 10, no alerts
ScenarioProducts == [InitProducts EXCEPT !["p2"].stock_quantity = 25]

InitScenario ==
  /\ products = ScenarioProducts
  /\ InitOther

Store(D) ==
  /\ products' = D.products
  /\ inventory_adjustments' = D.adjustments
  /\ low_stock_alerts' = D.alerts
  /\ uuid' = D.uuid

(***************************************************************************)
(* A call of Inventory.createAdjustment.                                   *)
(***************************************************************************)
CreateAdjustment(data) ==
  LET r == createAdjustment(DB, data)
  IN  /\ r.db.uuid["adj"] <= MaxAdj
      /\ Store(r.db)
      /\ result' = [NoResult EXCEPT !.op = "createAdjustment", !.data = data,
                                    !.ok = r.ok, !.error = r.error, !.id = r.id]
      /\ succeeded' = IF r.ok THEN [succeeded EXCEPT ![data.productId] = @ + 1]
                              ELSE succeeded
      /\ UNCHANGED <<now, txvars, shop, bulk, response>>

(***************************************************************************)
(* A call of Inventory.bulkAdjustments.                                    *)
(***************************************************************************)
Successes(results, p) ==
  Cardinality({ i \in 1..Len(results) : results[i].success /\ results[i].productId = p })

Reverse(seq) == [i \in 1..Len(seq) |-> seq[Len(seq) + 1 - i]]

\* BulkAdjustments that applies the entries from the last to the first
BulkAdjustmentsReversed(adjustments) ==
  LET r == bulkAdjustments(DB, Reverse(adjustments), 1)
  IN  /\ r.db.uuid["adj"] <= MaxAdj
      /\ Store(r.db)
      /\ result' = [NoResult EXCEPT !.op = "bulkAdjustments", !.results = Reverse(r.results),
                                    !.adjustments = adjustments]
      /\ succeeded' = [p \in ProductIds |-> succeeded[p] + Successes(r.results, p)]
      /\ UNCHANGED <<now, txvars, shop, bulk, response>>

BulkAdjustments(adjustments) ==
  LET r == bulkAdjustments(DB, adjustments, 1)
  IN  /\ r.db.uuid["adj"] <= MaxAdj
      /\ Store(r.db)
      /\ result' = [NoResult EXCEPT !.op = "bulkAdjustments", !.results = r.results,
                                    !.adjustments = adjustments]
      /\ succeeded' = [p \in ProductIds |-> succeeded[p] + Successes(r.results, p)]
      /\ UNCHANGED <<now, txvars, shop, bulk, response>>

(***************************************************************************)
(* A call of Inventory.resolveAlert, with the id of a stored alert or with *)
(* an id that matches none.                                                *)
(***************************************************************************)
UnknownAlert == [prefix |-> "alert", n |-> 0]

AlertIds == { low_stock_alerts[i].id : i \in 1..Len(low_stock_alerts) } \cup {UnknownAlert}

ResolveAlert(alertId) ==
  LET r == resolveAlert(DB, alertId, now)
  IN  /\ Store(r.db)
      /\ result' = [NoResult EXCEPT !.op = "resolveAlert", !.ok = r.changes > 0,
                                    !.id = alertId]
      /\ UNCHANGED <<now, succeeded, txvars, shop, bulk, response>>

(***************************************************************************)
(* POST /api/admin/inventory/adjustments: the validation chain of the      *)
(* route, the controller createInventoryAdjustment and the error handler.  *)
(***************************************************************************)
HttpCreate == "POST /api/admin/inventory/adjustments"

\* Present with every field taken as given
PresentAlways(body, field) == TRUE

\* the field is in the request body
Present(body, field) == field \in body.present

\* isUUID(): ids of products are generateId('prod') or seed ids, never UUIDs
isUUID(v) == v \in Uuids

\* inventoryValidation.createAdjustment: the fields that fail their check
ValidationErrors(body) ==
  { field \in Fields :
      \/ ~Present(body, field)
      \/ field = "productId" /\ ~isUUID(body.productId)
      \/ field = "type" /\ body.type \notin validTypes
      \/ field = "quantity" /\ body.quantity < 1 }

\* !productId || !type || quantity === undefined || !reason
RequiredMissing(body) == \E field \in Fields : ~Present(body, field)

\* Product.getById is async and is called without await: the caller gets the
\* promise, not the row
getById(D, id) == "Promise"

\* !product
Falsy(v) == v \in {"null", "undefined"}

\* the error handler: an Error without statusCode or status is answered 500
errorHandler(msg) == [status |-> 500, code |-> "INTERNAL_ERROR"]

Respond(status, code, invoked, body) ==
  response' = [NoResponse EXCEPT !.status = status, !.code = code, !.invoked = invoked,
                                 !.request = body]

Rejected(status, code, body) ==
  /\ Respond(status, code, FALSE, body)
  /\ result' = [NoResult EXCEPT !.op = HttpCreate, !.ok = FALSE, !.error = code]
  /\ UNCHANGED <<products, inventory_adjustments, low_stock_alerts, uuid, succeeded>>

HttpCreateAdjustment(body) ==
  LET data == Call(body.productId, body.type, body.quantity,
                   [reason |-> body.reason, notes |-> "NULL", createdBy |-> "admin"])
      r == createAdjustment(DB, data)
  IN  /\ IF ValidationErrors(body) # {} THEN Rejected(400, "VALIDATION_ERROR", body)
         ELSE IF RequiredMissing(body) THEN Rejected(400, "VALIDATION_ERROR", body)
         ELSE IF Falsy(getById(DB, body.productId)) THEN Rejected(404, "NOT_FOUND", body)
         ELSE /\ r.db.uuid["adj"] <= MaxAdj
              /\ Store(r.db)
              /\ result' = [NoResult EXCEPT !.op = HttpCreate, !.data = data, !.ok = r.ok,
                                            !.error = r.error, !.id = r.id]
              /\ succeeded' = IF r.ok THEN [succeeded EXCEPT ![data.productId] = @ + 1]
                                      ELSE succeeded
              /\ IF r.ok THEN Respond(201, "none", TRUE, body)
                 ELSE Respond(errorHandler(r.error).status, errorHandler(r.error).code,
                              TRUE, body)
      /\ UNCHANGED <<now, txvars, shop, bulk>>

(***************************************************************************)
(* POST /api/admin/inventory/adjustments/bulk: the validation chain of the *)
(* route and the controller bulkInventoryAdjustments.                      *)
(***************************************************************************)
HttpBulk == "POST /api/admin/inventory/adjustments/bulk"

RespondBulk(status, code, invoked, batch) ==
  response' = [NoResponse EXCEPT !.status = status, !.code = code, !.invoked = invoked,
                                 !.batch = batch]

RejectedBulk(status, code, batch) ==
  /\ RespondBulk(status, code, FALSE, batch)
  /\ result' = [NoResult EXCEPT !.op = HttpBulk, !.ok = FALSE, !.error = code]
  /\ UNCHANGED <<products, inventory_adjustments, low_stock_alerts, uuid, succeeded>>

HttpBulkAdjustments(batch) ==
  LET adjustments == [i \in 1..Len(batch) |->
                        Call(batch[i].productId, batch[i].type, batch[i].quantity,
                             [reason |-> batch[i].reason, notes |-> "NULL",
                              createdBy |-> "admin"])]
      r == bulkAdjustments(DB, adjustments, 1)
  IN  /\ IF Len(batch) = 0 \/ \E i \in 1..Len(batch) : ValidationErrors(batch[i]) # {}
         THEN RejectedBulk(400, "VALIDATION_ERROR", batch)
         ELSE IF \E i \in 1..Len(batch) : RequiredMissing(batch[i])
         THEN RejectedBulk(400, "VALIDATION_ERROR", batch)
         ELSE IF \E i \in 1..Len(batch) : Falsy(getById(DB, batch[i].productId))
         THEN RejectedBulk(404, "NOT_FOUND", batch)
         ELSE /\ r.db.uuid["adj"] <= MaxAdj
              /\ Store(r.db)
              /\ result' = [NoResult EXCEPT !.op = HttpBulk, !.results = r.results,
                                            !.adjustments = adjustments]
              /\ succeeded' = [p \in ProductIds |-> succeeded[p] + Successes(r.results, p)]
              /\ RespondBulk(200, "none", TRUE, batch)
      /\ UNCHANGED <<now, txvars, shop, bulk>>

(***************************************************************************)
(* PUT /api/admin/inventory/alerts/:alertId/resolve: the validation chain  *)
(* of the route and the controller resolveInventoryAlert.  The notes of    *)
(* the body are read and sent back in the answer.                          *)
(***************************************************************************)
HttpResolve == "PUT /api/admin/inventory/alerts/:alertId/resolve"

\* param('alertId').isUUID(): ids of alerts are generateId('alert')
isUUIDParam(id) == id.prefix = "uuid"

RespondResolve(status, code, invoked, notes) ==
  response' = [NoResponse EXCEPT !.status = status, !.code = code, !.invoked = invoked,
                                 !.notes = notes]

HttpResolveAlert(alertId, notes) ==
  LET r == resolveAlert(DB, alertId, now)
  IN  /\ IF ~isUUIDParam(alertId)
         THEN /\ RespondResolve(400, "VALIDATION_ERROR", FALSE, "none")
              /\ UNCHANGED <<products, inventory_adjustments, low_stock_alerts, uuid>>
         ELSE /\ Store(r.db)
              /\ IF r.changes > 0 THEN RespondResolve(200, "none", TRUE, notes)
                 ELSE RespondResolve(404, "NOT_FOUND", TRUE, "none")
      /\ result' = [NoResult EXCEPT !.op = HttpResolve, !.id = alertId,
                                    !.ok = isUUIDParam(alertId) /\ r.changes > 0]
      /\ UNCHANGED <<now, succeeded, txvars, shop, bulk>>

(***************************************************************************)
(* Product.update(id, data) with a stock object: one UPDATE statement.     *)
(***************************************************************************)
ProductUpdateRow(row, stock) ==
  [row EXCEPT
     !.stock_quantity = IF "quantity" \in DOMAIN stock THEN stock.quantity ELSE @,
     !.stock_low_threshold =
        IF "lowStockThreshold" \in DOMAIN stock THEN stock.lowStockThreshold ELSE @,
     !.reorder_level = IF "reorderLevel" \in DOMAIN stock THEN stock.reorderLevel ELSE @]

ProductUpdate(id, stock) ==
  /\ products' = [p \in DOMAIN products |->
                     IF p = id THEN ProductUpdateRow(products[p], stock) ELSE products[p]]
  /\ result' = [NoResult EXCEPT !.op = "Product.update", !.ok = id \in DOMAIN products]
  /\ UNCHANGED <<inventory_adjustments, low_stock_alerts, uuid, now, succeeded, txvars, shop, bulk, response>>

(***************************************************************************)
(* Product.delete(id): DELETE FROM products, with the foreign keys of      *)
(* inventory_adjustments and low_stock_alerts declared ON DELETE CASCADE.  *)
(***************************************************************************)
\* Cascade that empties the table
CascadeAll(rows, id) == IF \E i \in 1..Len(rows) : rows[i].product_id = id THEN <<>> ELSE rows

Cascade(rows, id) == SelectSeq2(rows, id, 1)

ProductDelete(id) ==
  /\ products' = [p \in DOMAIN products \ {id} |-> products[p]]
  /\ inventory_adjustments' = Cascade(inventory_adjustments, id)
  /\ low_stock_alerts' = Cascade(low_stock_alerts, id)
  /\ result' = [NoResult EXCEPT !.op = "Product.delete", !.ok = id \in DOMAIN products]
  /\ UNCHANGED <<uuid, now, succeeded, txvars, shop, bulk, response>>

(***************************************************************************)
(* The wall clock advances.                                                *)
(***************************************************************************)
Tick ==
  /\ now < MaxTime
  /\ now' = now + 1
  /\ UNCHANGED <<products, inventory_adjustments, low_stock_alerts, uuid, result, succeeded,
                 txvars, shop, bulk, response>>

(***************************************************************************)
(* The Category model: the table categories with parent references.        *)
(***************************************************************************)
CategoryIds(C) == { C[i].id : i \in 1..Len(C) }

RowOf(C, id) == C[CHOOSE i \in 1..Len(C) : C[i].id = id]

Range(s) == { s[i] : i \in 1..Len(s) }

\* what a call that does not return is recorded as
Diverges == [prefix |-> "diverges", n |-> 0]

RECURSIVE ChildrenFrom(_, _, _)
\* SELECT id FROM categories WHERE parent_id = ?, from row i on
ChildrenFrom(C, categoryId, i) ==
  IF i > Len(C) THEN <<>>
  ELSE (IF C[i].parent_id = categoryId THEN <<C[i].id>> ELSE <<>>)
       \o ChildrenFrom(C, categoryId, i + 1)

RECURSIVE getAllCategoryIds(_, _, _)
RECURSIVE IdsOfChildren(_, _, _, _)
\* for (const child of children) categoryIds.push(...getAllCategoryIds(child.id))
IdsOfChildren(C, children, k, depth) ==
  IF k > Len(children) THEN <<>>
  ELSE getAllCategoryIds(C, children[k], depth) \o IdsOfChildren(C, children, k + 1, depth)

\* getAllCategoryIds that stops at the children of the category
getAllCategoryIdsDirect(C, categoryId, depth) ==
  <<categoryId>> \o ChildrenFrom(C, categoryId, 1)

\* Category.getAllCategoryIds(categoryId); depth counts the nested calls, and
\* a nesting deeper than the table has rows never ends
getAllCategoryIds(C, categoryId, depth) ==
  IF depth > Len(C) THEN <<Diverges>>
  ELSE <<categoryId>> \o IdsOfChildren(C, ChildrenFrom(C, categoryId, 1), 1, depth + 1)

RECURSIVE getBreadcrumbs(_, _, _)
\* Category.getBreadcrumbs(categoryId): while (currentId) { ... unshift ...;
\* currentId = category.parent_id }; a walk longer than the table never ends
getBreadcrumbs(C, currentId, steps) ==
  IF currentId = Null \/ currentId \notin CategoryIds(C) THEN <<>>
  ELSE IF steps > Len(C) THEN <<Diverges>>
  ELSE getBreadcrumbs(C, RowOf(C, currentId).parent_id, steps + 1) \o <<currentId>>

\* ORDER BY name ASC
ByName == <<"p1", "p2">>

\* LIMIT ? of the first page
PageLimit == 25

\* Category.getProducts(categoryId) without filters: the first page
getProducts(C, P, categoryId) ==
  LET allCategoryIds == getAllCategoryIds(C, categoryId, 0)
      Selected(p) == /\ p \in DOMAIN P
                     /\ P[p].category_id \in Range(allCategoryIds)
                     /\ P[p].status = "active"
      rows == SelectSeq(ByName, Selected)
  IN  SubSeq(rows, 1, IF Len(rows) < PageLimit THEN Len(rows) ELSE PageLimit)

\* FOREIGN KEY (parent_id) REFERENCES categories(id), foreign_keys = ON
ParentAllowed(C, parentId) == parentId = Null \/ parentId \in CategoryIds(C)

\* Category.create(data): INSERT INTO categories with a generated id
create(C, data) ==
  IF ParentAllowed(C, data.parentId)
  THEN Append(C, [id |-> CatId(Len(C) + 1), parent_id |-> data.parentId])
  ELSE C

\* Category.update(id, data): UPDATE categories SET parent_id = ? WHERE id = ?
\* when data.parentId is not undefined
update(C, id, data) ==
  IF data.parentId = Undefined \/ ~ParentAllowed(C, data.parentId) THEN C
  ELSE [i \in 1..Len(C) |->
          IF C[i].id = id THEN [C[i] EXCEPT !.parent_id = data.parentId] ELSE C[i]]

RECURSIVE bulkUpdate(_, _, _)
\* for (const update of updates) Category.update(update.id, update.data)
bulkUpdate(C, updates, i) ==
  IF i > Len(updates) THEN C
  ELSE bulkUpdate(update(C, updates[i].id, updates[i].data), updates, i + 1)

RespondCategory(status, code) ==
  response' = [NoResponse EXCEPT !.status = status, !.code = code]

CategoryFrame ==
  UNCHANGED <<products, inventory_adjustments, low_stock_alerts, uuid, now, succeeded,
              txvars, bulk, wishlist_items, cart_items, carts, added>>

CategoryCreate(data) ==
  /\ Len(categories) < MaxCat
  /\ categories' = create(categories, data)
  /\ result' = [NoResult EXCEPT !.op = "create",
                                !.ok = ParentAllowed(categories, data.parentId),
                                !.id = IF ParentAllowed(categories, data.parentId)
                                       THEN CatId(Len(categories) + 1) ELSE NoId]
  /\ UNCHANGED response
  /\ CategoryFrame

HttpUpdateCategory == "PUT /api/admin/categories/:id"

\* updateCategory: Category.getById and Category.getAllCategoryIds are async
\* and called without await, so the category is never missing and
\* descendantIds.includes is not a function
UpdateCategory(id, parentId) ==
  /\ IF ~isUUIDParam(id) \/ (parentId # Undefined /\ ~isUUIDParam(parentId))
     THEN RespondCategory(400, "VALIDATION_ERROR") /\ UNCHANGED categories
     ELSE IF parentId # Undefined /\ parentId = id
     THEN RespondCategory(400, "VALIDATION_ERROR") /\ UNCHANGED categories
     ELSE IF parentId # Undefined
     THEN response' = [NoResponse EXCEPT !.status = errorHandler("TypeError").status,
                                         !.code = errorHandler("TypeError").code]
          /\ UNCHANGED categories
     ELSE /\ categories' = update(categories, id, [parentId |-> parentId])
          /\ RespondCategory(200, "none")
  /\ result' = [NoResult EXCEPT !.op = HttpUpdateCategory, !.id = id]
  /\ CategoryFrame

HttpBulkUpdateCategories == "PUT /api/admin/categories/bulk"

\* bulkUpdateCategories: no validation chain on the route
BulkUpdateCategories(updates) ==
  /\ IF Len(updates) = 0
     THEN RespondCategory(400, "VALIDATION_ERROR") /\ UNCHANGED categories
     ELSE /\ categories' = bulkUpdate(categories, updates, 1)
          /\ RespondCategory(200, "none")
  /\ result' = [NoResult EXCEPT !.op = HttpBulkUpdateCategories]
  /\ CategoryFrame

GetAllCategoryIds(categoryId) ==
  /\ result' = [NoResult EXCEPT !.op = "getAllCategoryIds", !.id = categoryId,
                                !.results = getAllCategoryIds(categories, categoryId, 0)]
  /\ UNCHANGED <<categories, response>>
  /\ CategoryFrame

GetBreadcrumbs(categoryId) ==
  /\ result' = [NoResult EXCEPT !.op = "getBreadcrumbs", !.id = categoryId,
                                !.results = getBreadcrumbs(categories, categoryId, 0)]
  /\ UNCHANGED <<categories, response>>
  /\ CategoryFrame

GetProducts(categoryId) ==
  /\ result' = [NoResult EXCEPT !.op = "getProducts", !.id = categoryId,
                                !.results = getProducts(categories, products, categoryId)]
  /\ UNCHANGED <<categories, response>>
  /\ CategoryFrame

InitCategory ==
  /\ products \in CatalogProducts
  /\ InitOther

NextCategory ==
  \/ \E data \in CategoryData : CategoryCreate(data)
  \/ \E id \in UpdateIds, parentId \in UpdateParents : UpdateCategory(id, parentId)
  \/ \E updates \in UpdateLists : BulkUpdateCategories(updates)
  \/ \E categoryId \in CategoryIds(categories) : GetAllCategoryIds(categoryId)
  \/ \E categoryId \in CategoryIds(categories) : GetBreadcrumbs(categoryId)
  \/ \E categoryId \in CategoryIds(categories) : GetProducts(categoryId)

SpecCategory == InitCategory /\ [][NextCategory]_vars

(***************************************************************************)
(* The Wishlist model: INSERT and DELETE on wishlist_items, which has      *)
(* UNIQUE(session_id, product_id) and a foreign key on product_id.  The    *)
(* driver reports a failed constraint with its extended result code.       *)
(***************************************************************************)
\* generateId: an id that no row of table T holds
FreshId(T, prefix) ==
  LET free == (1..(Len(T) + 1)) \ { T[i].id.n : i \in 1..Len(T) }
  IN  [prefix |-> prefix, n |-> CHOOSE n \in free : \A m \in free : n <= m]

\* Wishlist.hasItem(sessionId, productId)
hasItem(W, sessionId, productId) ==
  \E i \in 1..Len(W) : W[i].session_id = sessionId /\ W[i].product_id = productId

\* error.code of the INSERT INTO wishlist_items, NoError when the row is stored
InsertError(W, P, sessionId, productId) ==
  IF hasItem(W, sessionId, productId) THEN "SQLITE_CONSTRAINT_UNIQUE"
  ELSE IF productId \notin DOMAIN P THEN "SQLITE_CONSTRAINT_FOREIGNKEY"
  ELSE NoError

\* Wishlist.addItem(sessionId, productId): true after the INSERT, false when
\* error.code === 'SQLITE_CONSTRAINT', and any other error is thrown again
addItem(W, P, sessionId, productId) ==
  LET code == InsertError(W, P, sessionId, productId)
  IN  IF code = NoError
      THEN [rows |-> Append(W, [id |-> FreshId(W, "wish"), session_id |-> sessionId,
                                product_id |-> productId]),
            returned |-> TRUE, thrown |-> NoError]
      ELSE IF code = "SQLITE_CONSTRAINT"
      THEN [rows |-> W, returned |-> FALSE, thrown |-> NoError]
      ELSE [rows |-> W, returned |-> FALSE, thrown |-> code]

\* Wishlist.removeItem(sessionId, productId): result.changes > 0
removeItem(W, sessionId, productId) ==
  [rows |-> SelectSeq(W, LAMBDA row : ~(row.session_id = sessionId
                                        /\ row.product_id = productId)),
   returned |-> hasItem(W, sessionId, productId), thrown |-> NoError]

WishlistReturn(op, r, sessionId, productId) ==
  /\ wishlist_items' = r.rows
  /\ result' = [NoResult EXCEPT !.op = op, !.ok = r.returned, !.error = r.thrown,
                                !.sessionId = sessionId, !.data.productId = productId]
  /\ UNCHANGED <<inventory, categories, cart_items, carts, added>>

WishlistAddItem(sessionId, productId) ==
  WishlistReturn("Wishlist.addItem", addItem(wishlist_items, products, sessionId, productId),
                 sessionId, productId)

WishlistRemoveItem(sessionId, productId) ==
  WishlistReturn("Wishlist.removeItem", removeItem(wishlist_items, sessionId, productId),
                 sessionId, productId)

NextWishlist ==
  \/ \E sessionId \in SessionIds, productId \in ProductIds \cup {UnknownId} :
        WishlistAddItem(sessionId, productId)
  \/ \E sessionId \in SessionIds, productId \in ProductIds \cup {UnknownId} :
        WishlistRemoveItem(sessionId, productId)

SpecWishlist == Init /\ [][NextWishlist]_vars

(***************************************************************************)
(* The Cart model.  Cart.addItem runs its lookup (db.get) and, in the      *)
(* callback of the lookup, its write (db.run); the callbacks of several    *)
(* calls run in any order.  cart_items has no UNIQUE constraint.           *)
(***************************************************************************)
\* the quantities of the requests; 0 stands for a body without quantity
CartQuantities == {0, 2}

\* data.quantity || 1
QuantityOrOne(quantity) == IF quantity = 0 THEN 1 ELSE quantity

\* the calls between their lookup and their write
Pending == { c \in CartSlots : carts[c].pc = "looked" }

RECURSIVE TotalQuantity(_, _)
TotalQuantity(T, i) == IF i > Len(T) THEN 0 ELSE T[i].quantity + TotalQuantity(T, i + 1)

\* SELECT id, quantity FROM cart_items WHERE session_id = ? AND product_id = ?
Existing(T, sessionId, productId) ==
  IF \E i \in 1..Len(T) : T[i].session_id = sessionId /\ T[i].product_id = productId
  THEN T[CHOOSE i \in 1..Len(T) :
           /\ T[i].session_id = sessionId /\ T[i].product_id = productId
           /\ \A j \in 1..Len(T) :
                 (T[j].session_id = sessionId /\ T[j].product_id = productId) => i <= j].id
  ELSE NoId

\* db.get(query, [sessionId, data.productId], (err, existing) => ...)
CartLookup(c, sessionId, data) ==
  /\ carts[c].pc = "idle"
  /\ TotalQuantity(cart_items, 1) + 2 * (Cardinality(Pending) + 1) <= MaxQty
  /\ carts' = [carts EXCEPT ![c] = [pc |-> "looked", sessionId |-> sessionId,
                                    productId |-> data.productId,
                                    quantity |-> data.quantity,
                                    existing |-> Existing(cart_items, sessionId,
                                                          data.productId)]]
  /\ UNCHANGED <<inventory, result, categories, wishlist_items, cart_items, added>>

\* the callback of the lookup: UPDATE ... quantity = quantity + ? WHERE id = ?
\* when a row was found, INSERT INTO cart_items when none was
CartWrite(c) ==
  LET call == carts[c]
      quantity == QuantityOrOne(call.quantity)
  IN  /\ call.pc = "looked"
      /\ cart_items' =
           IF call.existing # NoId
           THEN [i \in 1..Len(cart_items) |->
                   IF cart_items[i].id = call.existing
                   THEN [cart_items[i] EXCEPT !.quantity = @ + quantity]
                   ELSE cart_items[i]]
           ELSE Append(cart_items, [id |-> FreshId(cart_items, "item"),
                                    session_id |-> call.sessionId,
                                    product_id |-> call.productId,
                                    quantity |-> quantity])
      /\ added' = [added EXCEPT ![call.sessionId][call.productId] = @ + quantity]
      /\ carts' = [carts EXCEPT ![c] = IdleCart]
      /\ result' = [NoResult EXCEPT !.op = "Cart.addItem", !.sessionId = call.sessionId,
                                    !.data.productId = call.productId,
                                    !.data.quantity = quantity]
      /\ UNCHANGED <<inventory, categories, wishlist_items>>

NextCart ==
  \/ \E c \in CartSlots, sessionId \in SessionIds, productId \in ProductIds,
        quantity \in CartQuantities :
        CartLookup(c, sessionId, [productId |-> productId, quantity |-> quantity])
  \/ \E c \in CartSlots : CartWrite(c)

SpecCart == Init /\ [][NextCart]_vars

(***************************************************************************)
(* The ledger alone: sequences of createAdjustment calls.                  *)
(***************************************************************************)
NextLedger == \E data \in AdjustmentData : CreateAdjustment(data)

SpecLedger == Init /\ [][NextLedger]_vars

(***************************************************************************)
(* Alerts raised and closed: createAdjustment and resolveAlert calls.      *)
(***************************************************************************)
NextAlerts ==
  \/ \E data \in SmallCalls : CreateAdjustment(data)
  \/ \E alertId \in AlertIds : ResolveAlert(alertId)

SpecAlerts == Init /\ [][NextAlerts]_vars

(***************************************************************************)
(* Stock changed through the ledger only: createAdjustment calls of every  *)
(* type and batches.                                                       *)
(***************************************************************************)
NextReplay ==
  \/ \E data \in ReplayData : CreateAdjustment(data)
  \/ \E adjustments \in Batches : BulkAdjustments(adjustments)

SpecReplay == Init /\ [][NextReplay]_vars

(***************************************************************************)
(* The ledger on the product of the documented scenario.                   *)
(***************************************************************************)
NextScenario == \E data \in ScenarioCalls : CreateAdjustment(data)

SpecScenario == InitScenario /\ [][NextScenario]_vars

(***************************************************************************)
(* The inventory subsystem: adjustments, batches, alert resolution and the *)
(* clock.                                                                  *)
(***************************************************************************)
Next ==
  \/ \E data \in SmallCalls : CreateAdjustment(data)
  \/ \E adjustments \in Batches : BulkAdjustments(adjustments)
  \/ \E alertId \in AlertIds : ResolveAlert(alertId)
  \/ Tick

Spec == Init /\ [][Next]_vars

(***************************************************************************)
(* Batches alone: sequences of bulkAdjustments calls whose entries succeed *)
(* or fail for each of the three reasons.                                  *)
(***************************************************************************)
NextBulk == \E adjustments \in BulkBatches : BulkAdjustments(adjustments)

SpecBulk == Init /\ [][NextBulk]_vars

(***************************************************************************)
(* The store with the Product operations: adjustments, alert resolution,   *)
(* product update and product delete.                                      *)
(***************************************************************************)
NextStore ==
  \/ \E data \in SmallCalls : CreateAdjustment(data)
  \/ \E alertId \in AlertIds : ResolveAlert(alertId)
  \/ \E id \in {"p1", UnknownId}, stock \in StockUpdates : ProductUpdate(id, stock)
  \/ \E id \in CallIds : ProductDelete(id)

SpecStore == Init /\ [][NextStore]_vars

(***************************************************************************)
(* The HTTP operation next to direct calls of the model.                   *)
(***************************************************************************)
NextHttp ==
  \/ \E data \in SmallCalls : CreateAdjustment(data)
  \/ \E body \in Bodies : HttpCreateAdjustment(body)

SpecHttp == Init /\ [][NextHttp]_vars

NextHttpBulk ==
  \/ \E data \in SmallCalls : CreateAdjustment(data)
  \/ \E batch \in HttpBatches : HttpBulkAdjustments(batch)

SpecHttpBulk == Init /\ [][NextHttpBulk]_vars

NextHttpResolve ==
  \/ \E data \in SmallCalls : CreateAdjustment(data)
  \/ \E alertId \in AlertIds : ResolveAlert(alertId)
  \/ \E alertId \in AlertIds \cup {UuidAlert}, notes \in NotesSent :
        HttpResolveAlert(alertId, notes)

SpecHttpResolve == Init /\ [][NextHttpResolve]_vars

(***************************************************************************)
(* createAdjustment statement by statement.  db.transaction(fn)() opens a  *)
(* transaction, runs fn and commits; when fn throws, or a statement of fn  *)
(* fails, the transaction is rolled back and the error goes to the caller. *)
(* The driver is synchronous: once a call has opened its transaction no    *)
(* other call of the process runs until it has committed or rolled back.   *)
(***************************************************************************)
InTx == {"begun", "computed", "updated", "inserted", "checked"}

InFlight == InTx \cup {"called"}

\* no exclusion between the transactions of two calls
TxFreeAlways == TRUE

TxFree == txOwner = 0

\* a rollback that leaves the writes of the transaction in place
RollbackKeep(snap, D) == D

Rollback(snap, D) == snap

Throw(c, msg) ==
  /\ Store(Rollback(snapshot, DB))
  /\ txOwner' = 0
  /\ calls' = [calls EXCEPT ![c].pc = "thrown", ![c].error = msg, ![c].at = calls[c].pc]
  /\ UNCHANGED snapshot

\* the caller invokes createAdjustment(data): the validTypes check
Invoke(c, data) ==
  /\ calls[c].pc = "idle"
  /\ calls' = [calls EXCEPT
        ![c].data = data,
        ![c].concurrent = \E d \in Slots \ {c} : calls[d].pc \in InFlight,
        ![c].pc = IF data.type \in validTypes THEN "called" ELSE "thrown",
        ![c].error = IF data.type \in validTypes THEN NoError ELSE ErrInvalidType]
  /\ UNCHANGED <<products, inventory_adjustments, low_stock_alerts, uuid, txOwner, snapshot>>
  /\ UNCHANGED txframe

\* transaction(): BEGIN
Begin(c) ==
  /\ calls[c].pc = "called"
  /\ TxFree
  /\ txOwner' = c
  /\ snapshot' = DB
  /\ calls' = [calls EXCEPT ![c].pc = "begun"]
  /\ UNCHANGED <<products, inventory_adjustments, low_stock_alerts, uuid>>
  /\ UNCHANGED txframe

\* SELECT stock_quantity and the switch that computes newQuantity
Select(c) ==
  /\ calls[c].pc = "begun"
  /\ LET data == calls[c].data
     IN  IF data.productId \notin DOMAIN products THEN Throw(c, ErrNotFound)
         ELSE LET newQuantity == NewQuantity(data.type, products[data.productId].stock_quantity,
                                             data.quantity)
                  err == QuantityError(data.type, newQuantity)
              IN  IF err # NoError THEN Throw(c, err)
                  ELSE /\ calls' = [calls EXCEPT ![c].pc = "computed",
                                                  ![c].newQuantity = newQuantity]
                       /\ UNCHANGED <<products, inventory_adjustments, low_stock_alerts,
                                      uuid, txOwner, snapshot>>
  /\ UNCHANGED txframe

\* UPDATE products SET stock_quantity = ?, stock_status = ?
Update(c) ==
  /\ calls[c].pc = "computed"
  /\ Store(UpdateProduct(DB, calls[c].data.productId, calls[c].newQuantity))
  /\ calls' = [calls EXCEPT ![c].pc = "updated"]
  /\ UNCHANGED <<txOwner, snapshot, txframe>>

\* INSERT INTO inventory_adjustments
Insert(c) ==
  /\ calls[c].pc = "updated"
  /\ Store(InsertAdjustment(DB, calls[c].data))
  /\ calls' = [calls EXCEPT ![c].pc = "inserted", ![c].id = generateId(DB, "adj")]
  /\ UNCHANGED <<txOwner, snapshot, txframe>>

\* this.checkLowStockAlert(productId, newQuantity)
CheckAlerts(c) ==
  /\ calls[c].pc = "inserted"
  /\ Store(checkLowStockAlert(DB, calls[c].data.productId, calls[c].newQuantity))
  /\ calls' = [calls EXCEPT ![c].pc = "checked"]
  /\ UNCHANGED <<txOwner, snapshot, txframe>>

\* return adjustmentId: COMMIT
Commit(c) ==
  /\ calls[c].pc = "checked"
  /\ txOwner' = 0
  /\ calls' = [calls EXCEPT ![c].pc = "returned"]
  /\ UNCHANGED <<products, inventory_adjustments, low_stock_alerts, uuid, snapshot, txframe>>

\* a statement fails or the call is interrupted inside the transaction
Interrupt(c) ==
  /\ calls[c].pc \in InTx
  /\ Throw(c, "interrupted")
  /\ UNCHANGED txframe

NextTx ==
  \/ \E c \in Slots, data \in TxCalls : Invoke(c, data)
  \/ \E c \in Slots : Begin(c)
  \/ \E c \in Slots : Select(c)
  \/ \E c \in Slots : Update(c)
  \/ \E c \in Slots : Insert(c)
  \/ \E c \in Slots : CheckAlerts(c)
  \/ \E c \in Slots : Commit(c)
  \/ \E c \in Slots : Interrupt(c)

SpecTx == Init /\ [][NextTx]_vars

(***************************************************************************)
(* bulkAdjustments entry by entry.  The loop over the entries is the body  *)
(* of one db.transaction: BEGIN before the first entry, COMMIT after the   *)
(* last.  The createAdjustment call of an entry runs inside it, its own    *)
(* transaction being a savepoint that is rolled back alone when the entry  *)
(* throws.  When the loop is left by anything but its end (the process is  *)
(* stopped, or an error leaves the catch block) the outer transaction is   *)
(* rolled back.                                                            *)
(***************************************************************************)
\* bulkAdjustments(adjustments): transaction() opens the outer transaction
BulkInvoke(adjustments) ==
  /\ bulk.pc # "begun"
  /\ bulk' = [pc |-> "begun", adjustments |-> adjustments, i |-> 1, results |-> <<>>]
  /\ snapshot' = DB
  /\ UNCHANGED <<products, inventory_adjustments, low_stock_alerts, uuid, now, result,
                 succeeded, calls, txOwner, response, shop>>

\* one iteration of the loop: try { this.createAdjustment(adjustment) } catch
BulkEntry ==
  /\ bulk.pc = "begun"
  /\ bulk.i <= Len(bulk.adjustments)
  /\ LET r == createAdjustment(DB, bulk.adjustments[bulk.i])
     IN  /\ r.db.uuid["adj"] <= MaxAdj
         /\ Store(r.db)
         /\ bulk' = [bulk EXCEPT !.i = @ + 1,
                                 !.results = Append(@, BulkResult(bulk.adjustments[bulk.i], r))]
  /\ UNCHANGED <<now, result, succeeded, txvars, shop, response>>

\* the loop has ended: COMMIT and return results
BulkReturn ==
  /\ bulk.pc = "begun"
  /\ bulk.i > Len(bulk.adjustments)
  /\ bulk' = [bulk EXCEPT !.pc = "returned"]
  /\ result' = [NoResult EXCEPT !.op = "bulkAdjustments", !.results = bulk.results,
                                !.adjustments = bulk.adjustments]
  /\ succeeded' = [p \in ProductIds |-> succeeded[p] + Successes(bulk.results, p)]
  /\ UNCHANGED <<products, inventory_adjustments, low_stock_alerts, uuid, now, txvars, shop,
                 response>>

\* the batch is interrupted between two entries: the outer transaction is
\* rolled back
BulkInterrupt ==
  /\ bulk.pc = "begun"
  /\ Store(Rollback(snapshot, DB))
  /\ bulk' = [bulk EXCEPT !.pc = "interrupted"]
  /\ UNCHANGED <<now, result, succeeded, txvars, shop, response>>

NextBulkTx ==
  \/ \E adjustments \in StepBatches : BulkInvoke(adjustments)
  \/ BulkEntry
  \/ BulkReturn
  \/ BulkInterrupt

SpecBulkTx == Init /\ [][NextBulkTx]_vars

(***************************************************************************)
(* Properties.                                                             *)
(***************************************************************************)
\* the step just taken was a call of createAdjustment
CreateStep == result'.op = "createAdjustment" /\ now' = now

AfterCreate == result.op = "createAdjustment" /\ result.ok

\* the status the data model derives from a quantity and a threshold
StockStatusOf(quantity, threshold) ==
  IF quantity = 0 THEN "out_of_stock"
  ELSE IF 0 < quantity /\ quantity <= threshold THEN "low_stock"
  ELSE "in_stock"

\* C1: right after a successful createAdjustment the stored stock_status of
\* every product is the status derived from its stock_quantity and its own
\* stock_low_threshold.
C1_StatusFollowsOwnThreshold ==
  AfterCreate =>
    \A p \in DOMAIN products :
       products[p].stock_status =
         StockStatusOf(products[p].stock_quantity, products[p].stock_low_threshold)

\* C2: in every reachable state, whatever types and integer quantities the
\* createAdjustment calls were given, no product has a negative stock_quantity.
C2_StockNeverNegative ==
  \A p \in DOMAIN products : products[p].stock_quantity >= 0

Decreasing == {"sale", "damage", "theft"}

Exceeds(data, stock) ==
  \/ data.type \in Decreasing /\ data.quantity > stock
  \/ data.type = "transfer" /\ data.quantity < 0 /\ (0 - data.quantity) > stock

\* C3: a createAdjustment of type sale, damage or theft, or a transfer with a
\* negative delta, whose amount exceeds the current stock_quantity throws an
\* insufficient-stock error and leaves products, ledger and alerts as they were.
C3_InsufficientStockRejected ==
  [][ (/\ CreateStep
       /\ result'.data.productId \in DOMAIN products
       /\ Exceeds(result'.data, products[result'.data.productId].stock_quantity))
      => (/\ ~result'.ok
          /\ result'.error \in {ErrInsufficient, ErrInsufficientTransfer}
          /\ UNCHANGED <<products, inventory_adjustments, low_stock_alerts>>) ]_vars

C3_Witness ==
  /\ result.op = "createAdjustment"
  /\ ~result.ok
  /\ result.error = ErrInsufficient
  /\ result.data.type = "sale"
  /\ result.data.quantity > products[result.data.productId].stock_quantity
  /\ Len(inventory_adjustments) = 1

\* C6: a successful createAdjustment with amount q on stock s leaves s + q for
\* purchase and return, s - q for sale, damage and theft, q for adjustment
\* (status out_of_stock when q = 0) and s + q for transfer.
C6_QuantityByType ==
  [][ (CreateStep /\ result'.ok) =>
      LET p == result'.data.productId
          t == result'.data.type
          q == result'.data.quantity
          s == products[p].stock_quantity
      IN  /\ t \in {"purchase", "return", "transfer"} => products'[p].stock_quantity = s + q
          /\ t \in Decreasing => products'[p].stock_quantity = s - q
          /\ t = "adjustment" => products'[p].stock_quantity = q
          /\ (t = "adjustment" /\ q = 0) => products'[p].stock_status = "out_of_stock" ]_vars

C6_Witness ==
  /\ AfterCreate
  /\ result.data.type = "adjustment"
  /\ result.data.quantity = 0
  /\ products["p1"].stock_quantity = 0
  /\ products["p1"].stock_status = "out_of_stock"
  /\ Len(inventory_adjustments) = 2
  /\ inventory_adjustments[1].adjustment_type = "transfer"
  /\ inventory_adjustments[1].quantity = -1

NoOpenTx == \A c \in Slots : calls[c].pc \notin InTx

ReturnedCalls == { c \in Slots : calls[c].pc = "returned" }

RowData(row) ==
  [productId |-> row.product_id, type |-> row.adjustment_type, quantity |-> row.quantity,
   reason |-> row.reason, notes |-> row.notes, createdBy |-> row.created_by]

\* the adjustments of the ledger rows applied one after another, each as a whole
RECURSIVE ReplayRows(_, _, _)
ReplayRows(D, rows, i) ==
  IF i > Len(rows) THEN [db |-> D, ok |-> TRUE]
  ELSE LET r == createAdjustment(D, RowData(rows[i]))
       IN  IF r.ok THEN ReplayRows(r.db, rows, i + 1) ELSE [db |-> D, ok |-> FALSE]

\* C4: a createAdjustment is all or nothing.  Whenever no transaction is
\* open, the products, the ledger and the alerts are exactly what the
\* adjustments of the ledger rows produce when each is applied as a whole,
\* and the ledger has a row for the calls that returned and for no other:
\* nothing of a call that threw or was interrupted between its writes is left.
C4_AllOrNothing ==
  NoOpenTx =>
    /\ ReplayRows(InitDB, inventory_adjustments, 1).ok
    /\ ReplayRows(InitDB, inventory_adjustments, 1).db = DB
    /\ Len(inventory_adjustments) = Cardinality(ReturnedCalls)
    /\ \A c \in ReturnedCalls :
          \E i \in 1..Len(inventory_adjustments) : inventory_adjustments[i].id = calls[c].id

C4_Witness ==
  /\ NoOpenTx
  /\ \E c \in Slots :
        /\ calls[c].pc = "thrown"
        /\ calls[c].error = "interrupted"
        /\ calls[c].at = "inserted"
        /\ calls[c].data.productId = "p1"
  /\ \E c \in ReturnedCalls : calls[c].data.productId = "p1"

Orders(S) ==
  { f \in [1..Cardinality(S) -> S] : \A i, j \in 1..Cardinality(S) : i # j => f[i] # f[j] }

\* the calls of order applied one after another, each as a whole
RECURSIVE ReplayCalls(_, _, _)
ReplayCalls(D, order, i) ==
  IF i > Len(order) THEN [db |-> D, ok |-> TRUE]
  ELSE LET r == createAdjustment(D, calls[order[i]].data)
       IN  IF r.ok THEN ReplayCalls(r.db, order, i + 1) ELSE [db |-> D, ok |-> FALSE]

\* C5: concurrent createAdjustment calls do not interleave.  Whenever no
\* transaction is open, the products are what the calls that returned produce
\* when applied one after another in some order, and each call that returned
\* has exactly one ledger row.
C5_Serialized ==
  NoOpenTx =>
    /\ \E order \in Orders(ReturnedCalls) :
          /\ ReplayCalls(InitDB, order, 1).ok
          /\ ReplayCalls(InitDB, order, 1).db.products = products
    /\ \A c \in ReturnedCalls :
          Cardinality({ i \in 1..Len(inventory_adjustments) :
                          inventory_adjustments[i] = LedgerRow(calls[c].id, calls[c].data) }) = 1

C5_Witness ==
  /\ NoOpenTx
  /\ Cardinality(ReturnedCalls) = 2
  /\ \A c \in ReturnedCalls : calls[c].data.productId = "p1"
  /\ \E c \in ReturnedCalls : calls[c].concurrent
  /\ products["p1"].stock_quantity = 3

RowsOf(p) ==
  { i \in 1..Len(inventory_adjustments) : inventory_adjustments[i].product_id = p }

\* C7: the ledger rows of a product are as many as the createAdjustment calls
\* on it that returned; a call that returns appends one row with the call's
\* productId, type, quantity, reason, notes and createdBy and returns that
\* row's id, and a call that throws appends none.
C7_OneRowPerSuccess ==
  /\ [](\A p \in ProductIds : Cardinality(RowsOf(p)) = succeeded[p])
  /\ [][ CreateStep =>
          IF result'.ok
          THEN inventory_adjustments' =
                 Append(inventory_adjustments,
                        [id |-> result'.id,
                         product_id |-> result'.data.productId,
                         adjustment_type |-> result'.data.type,
                         quantity |-> result'.data.quantity,
                         reason |-> result'.data.reason,
                         notes |-> result'.data.notes,
                         created_by |-> result'.data.createdBy])
          ELSE inventory_adjustments' = inventory_adjustments ]_vars

C7_Witness ==
  /\ result.op = "createAdjustment"
  /\ ~result.ok
  /\ succeeded["p1"] = 1
  /\ succeeded["p2"] = 1
  /\ Len(inventory_adjustments) = 2
  /\ inventory_adjustments[2].id = [prefix |-> "adj", n |-> 2]

RowKept(i) ==
  \E j \in 1..Len(inventory_adjustments') :
     inventory_adjustments'[j] = inventory_adjustments[i]

Unresolved(alerts, p, t) ==
  { i \in 1..Len(alerts) :
      alerts[i].product_id = p /\ alerts[i].alert_type = t /\ alerts[i].is_resolved = 0 }

AlertTypes == {"low_stock", "reorder"}

\* C9: in every reachable state there is at most one unresolved alert for
\* each pair of product and alert type.
C9_OneOpenAlertPerType ==
  \A p \in CallIds, t \in AlertTypes : Cardinality(Unresolved(low_stock_alerts, p, t)) <= 1

C9_Witness ==
  /\ Cardinality(Unresolved(low_stock_alerts, "p1", "low_stock")) = 1
  /\ \E i \in 1..Len(low_stock_alerts) :
        /\ low_stock_alerts[i].product_id = "p1"
        /\ low_stock_alerts[i].alert_type = "low_stock"
        /\ low_stock_alerts[i].is_resolved = 1

Threshold(row, t) == IF t = "low_stock" THEN row.stock_low_threshold ELSE row.reorder_level

\* C10: right after a successful createAdjustment that leaves quantity q on
\* product p, an unresolved alert of a type exists for p when q is at or below
\* the threshold of that type, and the call inserted a row of that type
\* exactly when q is at or below the threshold and no unresolved alert of
\* that type existed before the call.
C10_AlertRaisedAtThreshold ==
  [][ (CreateStep /\ result'.ok) =>
      LET p == result'.data.productId
          q == products'[p].stock_quantity
          inserted(t) == Unresolved(low_stock_alerts', p, t) \ (1..Len(low_stock_alerts))
      IN  \A t \in AlertTypes :
            /\ q <= Threshold(products[p], t) => Unresolved(low_stock_alerts', p, t) # {}
            /\ Len(low_stock_alerts') >= Len(low_stock_alerts)
            /\ Cardinality(inserted(t)) =
                  IF q <= Threshold(products[p], t) /\ Unresolved(low_stock_alerts, p, t) = {}
                  THEN 1 ELSE 0 ]_vars

C10_Witness ==
  /\ AfterCreate
  /\ result.data.productId = "p1"
  /\ products["p1"].stock_quantity = products["p1"].stock_low_threshold
  /\ products["p1"].stock_quantity > products["p1"].reorder_level
  /\ \E i \in Unresolved(low_stock_alerts, "p1", "low_stock") :
        low_stock_alerts[i].current_quantity = products["p1"].stock_quantity
  /\ \E i \in 1..Len(low_stock_alerts) :
        /\ low_stock_alerts[i].alert_type = "reorder"
        /\ low_stock_alerts[i].is_resolved = 0
        /\ low_stock_alerts[i].current_quantity < products["p1"].stock_quantity

\* the step just taken was a call of createAdjustment or of bulkAdjustments
AdjustStep == result'.op \in {"createAdjustment", "bulkAdjustments"} /\ now' = now

\* the step just taken was a call of resolveAlert
ResolveStep == result'.op = "resolveAlert" /\ now' = now

\* C11: no createAdjustment and no bulkAdjustments call changes is_resolved or
\* resolved_at of an existing alert, also when the quantity rises above the
\* alert's threshold; an alert goes from unresolved to resolved only in a
\* resolveAlert call with its id.
C11_AlertsNotAutoResolved ==
  [][ /\ AdjustStep =>
           /\ Len(low_stock_alerts') >= Len(low_stock_alerts)
           /\ \A i \in 1..Len(low_stock_alerts) :
                 /\ low_stock_alerts'[i].id = low_stock_alerts[i].id
                 /\ low_stock_alerts'[i].is_resolved = low_stock_alerts[i].is_resolved
                 /\ low_stock_alerts'[i].resolved_at = low_stock_alerts[i].resolved_at
      /\ \A i \in 1..Len(low_stock_alerts) :
            (/\ i <= Len(low_stock_alerts')
             /\ low_stock_alerts[i].is_resolved = 0
             /\ low_stock_alerts'[i].is_resolved = 1)
            => (ResolveStep /\ result'.id = low_stock_alerts[i].id) ]_vars

C11_Witness ==
  /\ result.op = "createAdjustment"
  /\ result.ok
  /\ result.data.type = "purchase"
  /\ \E i \in Unresolved(low_stock_alerts, "p1", "low_stock") :
        /\ low_stock_alerts[i].threshold < products["p1"].stock_quantity
        /\ low_stock_alerts[i].resolved_at = NoTime

AlertWithId(alerts, alertId) == { i \in 1..Len(alerts) : alerts[i].id = alertId }

\* C12: resolveAlert on an alert that is already resolved reports that
\* nothing changed (returns false) and leaves the alert, its resolved_at
\* included, as the first resolve stored it.
C12_ResolveTwiceIsNoOp ==
  [][ (/\ ResolveStep
       /\ \E i \in AlertWithId(low_stock_alerts, result'.id) :
             low_stock_alerts[i].is_resolved = 1)
      => (/\ ~result'.ok
          /\ low_stock_alerts' = low_stock_alerts) ]_vars

\* C13: resolveAlert with an id that matches no alert returns false, without
\* throwing, and leaves every alert, product and ledger row unchanged.
C13_ResolveUnknownAlert ==
  [][ (ResolveStep /\ AlertWithId(low_stock_alerts, result'.id) = {})
      => (/\ ~result'.ok
          /\ result'.error = NoError
          /\ UNCHANGED <<products, inventory_adjustments, low_stock_alerts>>) ]_vars

C13_Witness ==
  /\ result.op = "resolveAlert"
  /\ ~result.ok
  /\ result.id = UnknownAlert
  /\ Unresolved(low_stock_alerts, "p1", "low_stock") # {}
  /\ Unresolved(low_stock_alerts, "p1", "reorder") # {}


\* the step just taken was a call of bulkAdjustments
BulkStep == result'.op = "bulkAdjustments" /\ now' = now

\* the entries of a batch taken in order, each as a createAdjustment call of
\* its own on the store left by the entries before it: ok when every entry is
\* reported successful exactly when its own call returns
RECURSIVE AppliedAlone(_, _, _, _)
AppliedAlone(D, adjustments, results, i) ==
  IF i > Len(adjustments) THEN [db |-> D, ok |-> TRUE]
  ELSE LET r == createAdjustment(D, adjustments[i])
       IN  IF results[i].success # r.ok THEN [db |-> D, ok |-> FALSE]
           ELSE AppliedAlone(IF r.ok THEN r.db ELSE D, adjustments, results, i + 1)

\* C14: in bulkAdjustments an entry that fails (type not valid, product
\* unknown, stock insufficient) neither prevents nor undoes another entry: an
\* entry is reported successful exactly when it succeeds as a call of its own
\* on the store left by the entries before it, and the store after the batch
\* is the store the successful entries produce, applied in their order.
C14_BulkIsolatesFailures ==
  [][ BulkStep =>
      LET adjustments == result'.adjustments
          results == result'.results
          alone == AppliedAlone(DB, adjustments, results, 1)
      IN  /\ Len(results) = Len(adjustments)
          /\ alone.ok
          /\ alone.db = DB' ]_vars

C14_Witness ==
  /\ result.op = "bulkAdjustments"
  /\ Len(result.results) = 3
  /\ result.results[1].success
  /\ ~result.results[2].success
  /\ result.results[2].error = ErrInvalidType
  /\ result.results[3].success
  /\ Len(inventory_adjustments) = 2
  /\ products["p1"].stock_quantity = 1
  /\ products["p2"].stock_quantity = 20

\* C16: bulkAdjustments returns one result per entry, in the order of the
\* entries; result i has the productId of entry i and either success with
\* the id of the ledger row the call appended for entry i, or no success with
\* an error message; the rows appended are those of the successful entries.
C16_BulkResults ==
  [][ BulkStep =>
      LET adjustments == result'.adjustments
          results == result'.results
          n == Len(adjustments)
          old == Len(inventory_adjustments)
          appended == (old + 1)..Len(inventory_adjustments')
          ok == { i \in 1..n : results[i].success }
      IN  /\ Len(results) = n
          /\ \A i \in 1..n :
                /\ results[i].productId = adjustments[i].productId
                /\ IF results[i].success
                   THEN /\ results[i].error = NoError
                        /\ \E j \in appended :
                              inventory_adjustments'[j] =
                                LedgerRow(results[i].adjustmentId, adjustments[i])
                   ELSE /\ results[i].error # NoError
                        /\ results[i].adjustmentId = NoId
          /\ \A i, j \in ok : i # j => results[i].adjustmentId # results[j].adjustmentId
          /\ Cardinality(appended) = Cardinality(ok)
          /\ \A j \in 1..old : inventory_adjustments'[j] = inventory_adjustments[j] ]_vars

C16_Witness ==
  /\ result.op = "bulkAdjustments"
  /\ Len(result.results) = 3
  /\ result.results[1].success
  /\ result.results[1].adjustmentId = inventory_adjustments[1].id
  /\ ~result.results[2].success
  /\ result.results[2].error = ErrInsufficient
  /\ ~result.results[3].success
  /\ result.results[3].error = ErrNotFound
  /\ result.results[3].productId = UnknownId
  /\ Len(inventory_adjustments) = 1


\* C15: bulkAdjustments commits each entry in a transaction of its own: when
\* a batch is interrupted after k entries, the ledger rows of the successful
\* entries among the first k are still stored.
C15_BulkEntriesCommitAlone ==
  bulk.pc = "interrupted" =>
    \A k \in 1..Len(bulk.results) :
       bulk.results[k].success =>
         \E j \in 1..Len(inventory_adjustments) :
            inventory_adjustments[j] =
              LedgerRow(bulk.results[k].adjustmentId, bulk.adjustments[k])


\* C17: createAdjustment with a type outside validTypes throws the
\* invalid-type error (whatever the product), with a valid type and a
\* productId that references no product it throws the not-found error, and it
\* throws an insufficient-stock error only for a stored product and a
\* decreasing type or a transfer;
\* the three kinds of error are pairwise different, and a call that throws
\* leaves products, ledger and alerts unchanged.
C17_FailuresDistinguished ==
  [][ CreateStep =>
      LET data == result'.data
          known == data.productId \in DOMAIN products
          valid == data.type \in validTypes
          insufficient == {ErrInsufficient, ErrInsufficientTransfer}
      IN  /\ ~valid => (~result'.ok /\ result'.error = ErrInvalidType)
          /\ (valid /\ ~known) => (~result'.ok /\ result'.error = ErrNotFound)
          /\ result'.error = ErrInvalidType => ~valid
          /\ result'.error = ErrNotFound => (valid /\ ~known)
          /\ result'.error \in insufficient =>
                (valid /\ known /\ data.type \in Decreasing \cup {"transfer"})
          /\ ~result'.ok =>
                /\ result'.error \in {ErrInvalidType, ErrNotFound} \cup insufficient
                /\ UNCHANGED <<products, inventory_adjustments, low_stock_alerts>>
          /\ ErrInvalidType # ErrNotFound
          /\ {ErrInvalidType, ErrNotFound} \cap insufficient = {} ]_vars

C17_Witness ==
  /\ result.op = "createAdjustment"
  /\ ~result.ok
  /\ result.error = ErrNotFound
  /\ result.data.productId = UnknownId
  /\ Len(inventory_adjustments) = 1
  /\ Len(low_stock_alerts) = 2


\* the step just taken was a POST /api/admin/inventory/adjustments request
HttpStep == result'.op = HttpCreate /\ now' = now

Complete(body) == body.present = Fields

\* C18: the create-adjustment request is answered 400 when the type is not
\* valid or a required field is missing, 404 when the productId references
\* no product and 409 when the stock is insufficient; none of the three is
\* answered 500.
C18_HttpStatusByFailure ==
  [][ HttpStep =>
      LET body == response'.request
          badRequest == ~Complete(body) \/ body.type \notin validTypes
          unknown == body.productId \notin DOMAIN products
          exceeds == ~unknown /\ Exceeds(body, products[body.productId].stock_quantity)
      IN  /\ badRequest => response'.status = 400
          /\ (~badRequest /\ unknown) => response'.status = 404
          /\ (~badRequest /\ exceeds) => response'.status = 409
          /\ (badRequest \/ unknown \/ exceeds) => response'.status # 500 ]_vars

\* C19: a create-adjustment request in which productId, type, quantity or
\* reason is missing is answered with a validation failure (400,
\* VALIDATION_ERROR) without Inventory.createAdjustment being invoked, and no
\* product, ledger or alert row changes.
C19_MissingFieldRejected ==
  [][ (HttpStep /\ ~Complete(response'.request)) =>
      (/\ response'.status = 400
       /\ response'.code = "VALIDATION_ERROR"
       /\ ~response'.invoked
       /\ UNCHANGED <<products, inventory_adjustments, low_stock_alerts>>) ]_vars

C19_Witness ==
  /\ result.op = HttpCreate
  /\ response.status = 400
  /\ ~response.invoked
  /\ response.request.present = Fields \ {"reason"}
  /\ isUUID(response.request.productId)
  /\ response.request.type \in validTypes
  /\ Len(inventory_adjustments) = 1


\* C20: createAdjustment is the only operation that changes the
\* stock_quantity of a product: a step that changes it is a createAdjustment
\* call on that product that returned, stored the recomputed stock_status and
\* appended a ledger row for the product; Product.update leaves it unchanged.
C20_QuantityOnlyByAdjustment ==
  [][ \A p \in DOMAIN products \cap DOMAIN products' :
        products'[p].stock_quantity # products[p].stock_quantity =>
          /\ result'.op = "createAdjustment"
          /\ result'.ok
          /\ result'.data.productId = p
          /\ products'[p].stock_status =
               calculateStockStatus(products'[p].stock_quantity, DefaultLowThreshold)
          /\ Len(inventory_adjustments') = Len(inventory_adjustments) + 1
          /\ inventory_adjustments'[Len(inventory_adjustments')].product_id = p ]_vars


Sale10 == LedgerRow([prefix |-> "adj", n |-> 1], Call("p2", "sale", 10, Meta2))

AlertsOfType(t) ==
  { i \in 1..Len(low_stock_alerts) :
      low_stock_alerts[i].product_id = "p2" /\ low_stock_alerts[i].alert_type = t }

\* C21: from quantity 25, threshold 20, reorder level 10 and no alerts, a sale
\* of 10 leaves quantity 15, status low_stock and one unresolved low_stock
\* alert, the only alert; a second sale of 10 leaves quantity 5, status
\* low_stock, one new unresolved reorder alert and still one low_stock alert.
C21_ScenarioAB ==
  /\ inventory_adjustments = <<Sale10>> =>
        /\ products["p2"].stock_quantity = 15
        /\ products["p2"].stock_status = "low_stock"
        /\ Len(low_stock_alerts) = 1
        /\ low_stock_alerts[1].alert_type = "low_stock"
        /\ low_stock_alerts[1].is_resolved = 0
        /\ low_stock_alerts[1].current_quantity = 15
        /\ low_stock_alerts[1].threshold = 20
  /\ (/\ Len(inventory_adjustments) = 2
      /\ inventory_adjustments[1] = Sale10
      /\ inventory_adjustments[2] = [Sale10 EXCEPT !.id = [prefix |-> "adj", n |-> 2]]) =>
        /\ products["p2"].stock_quantity = 5
        /\ products["p2"].stock_status = "low_stock"
        /\ Len(low_stock_alerts) = 2
        /\ Cardinality(AlertsOfType("low_stock")) = 1
        /\ Cardinality(Unresolved(low_stock_alerts, "p2", "low_stock")) = 1
        /\ low_stock_alerts[1].current_quantity = 15
        /\ Cardinality(Unresolved(low_stock_alerts, "p2", "reorder")) = 1
        /\ low_stock_alerts[2].alert_type = "reorder"
        /\ low_stock_alerts[2].current_quantity = 5
        /\ low_stock_alerts[2].threshold = 10

C21_Witness ==
  /\ Len(inventory_adjustments) = 2
  /\ inventory_adjustments[1] = Sale10
  /\ inventory_adjustments[2].adjustment_type = "sale"
  /\ inventory_adjustments[2].quantity = 10
  /\ products["p2"].stock_quantity = 5
  /\ Len(low_stock_alerts) = 2


\* the quantity that the ledger rows of product p explain, from quantity q:
\* add for purchase, return and transfer, subtract for sale, damage and
\* theft, set for adjustment
RECURSIVE ReplayQuantity(_, _, _, _)
ReplayQuantity(q, rows, p, i) ==
  IF i > Len(rows) THEN q
  ELSE IF rows[i].product_id # p THEN ReplayQuantity(q, rows, p, i + 1)
  ELSE LET t == rows[i].adjustment_type
           n == rows[i].quantity
       IN  ReplayQuantity(IF t \in {"purchase", "return", "transfer"} THEN q + n
                          ELSE IF t \in {"sale", "damage", "theft"} THEN q - n
                          ELSE n,
                          rows, p, i + 1)

\* C25: as long as stock changes only through createAdjustment and
\* bulkAdjustments, the stock_quantity of every product is what its ledger
\* rows, replayed in creation order over its initial quantity, give.
C25_QuantityIsLedgerReplay ==
  \A p \in DOMAIN products :
     products[p].stock_quantity =
       ReplayQuantity(InitProducts[p].stock_quantity, inventory_adjustments, p, 1)

C25_Witness ==
  /\ result.op = "bulkAdjustments"
  /\ Len(inventory_adjustments) = 2
  /\ inventory_adjustments[1].adjustment_type = "transfer"
  /\ inventory_adjustments[1].quantity = -1
  /\ inventory_adjustments[2].adjustment_type = "sale"
  /\ products["p1"].stock_quantity = 0
  /\ products["p1"].stock_status = "out_of_stock"


Resolved(alerts, p, t) ==
  { i \in 1..Len(alerts) :
      alerts[i].product_id = p /\ alerts[i].alert_type = t /\ alerts[i].is_resolved = 1 }

\* C26: when the alert of a type for product p has been closed by
\* resolveAlert and none of that type is open, a successful createAdjustment
\* on p that leaves the quantity at or below the threshold of the type
\* inserts a new unresolved alert of the type, and every stored alert row,
\* the resolved one included, stays as it was.
C26_AlertRaisedAgainAfterResolve ==
  [][ (CreateStep /\ result'.ok) =>
      LET p == result'.data.productId
          q == products'[p].stock_quantity
          old == Len(low_stock_alerts)
      IN  \A t \in AlertTypes :
            (/\ Resolved(low_stock_alerts, p, t) # {}
             /\ Unresolved(low_stock_alerts, p, t) = {}
             /\ q <= Threshold(products[p], t))
            => (/\ \E j \in (old + 1)..Len(low_stock_alerts') :
                      /\ low_stock_alerts'[j].product_id = p
                      /\ low_stock_alerts'[j].alert_type = t
                      /\ low_stock_alerts'[j].is_resolved = 0
                      /\ low_stock_alerts'[j].current_quantity = q
                      /\ low_stock_alerts'[j].threshold = Threshold(products[p], t)
                /\ \A i \in 1..old : low_stock_alerts'[i] = low_stock_alerts[i]) ]_vars

C26_Witness ==
  /\ AfterCreate
  /\ result.data.productId = "p1"
  /\ \E i \in Resolved(low_stock_alerts, "p1", "low_stock") :
        \E j \in Unresolved(low_stock_alerts, "p1", "low_stock") :
           /\ i < j
           /\ low_stock_alerts[i].current_quantity = 1
           /\ low_stock_alerts[j].current_quantity = products["p1"].stock_quantity


\* the quantity a ledger rule gives from quantity q
Rule(q, type, n) ==
  IF type \in {"purchase", "return", "transfer"} THEN q + n
  ELSE IF type \in Decreasing THEN q - n
  ELSE n

\* the stock of product p before entry i of a batch: the stock before the
\* batch changed by the entries k..i-1 on p that are reported successful
RECURSIVE StockBefore(_, _, _, _, _, _)
StockBefore(q, adjustments, results, p, k, i) ==
  IF k >= i THEN q
  ELSE IF results[k].success /\ adjustments[k].productId = p
       THEN StockBefore(Rule(q, adjustments[k].type, adjustments[k].quantity),
                        adjustments, results, p, k + 1, i)
       ELSE StockBefore(q, adjustments, results, p, k + 1, i)

\* C27: bulkAdjustments applies its entries in list order, each against the
\* stock left by the entries before it: a decreasing entry on a stored
\* product succeeds exactly when its amount does not exceed the stock before
\* the batch changed by the earlier successful entries on the product, it
\* fails with the insufficient-stock error otherwise, and the quantity after
\* the batch is the stock before it changed by all successful entries.
C27_BulkInListOrder ==
  [][ BulkStep =>
      LET adjustments == result'.adjustments
          results == result'.results
          n == Len(adjustments)
      IN  /\ Len(results) = n
          /\ \A i \in 1..n :
                LET p == adjustments[i].productId
                IN  (p \in DOMAIN products /\ adjustments[i].type \in Decreasing) =>
                      LET stock == StockBefore(products[p].stock_quantity, adjustments,
                                               results, p, 1, i)
                      IN  /\ results[i].success <=> adjustments[i].quantity <= stock
                          /\ ~results[i].success => results[i].error = ErrInsufficient
          /\ \A p \in DOMAIN products :
                products'[p].stock_quantity =
                  StockBefore(products[p].stock_quantity, adjustments, results, p, 1, n + 1) ]_vars

C27_Witness ==
  /\ result.op = "bulkAdjustments"
  /\ Len(result.results) = 2
  /\ \A i \in 1..2 : /\ result.adjustments[i].productId = "p1"
                     /\ result.adjustments[i].type = "sale"
  /\ result.results[1].success
  /\ ~result.results[2].success
  /\ result.results[2].error = ErrInsufficient
  /\ products["p1"].stock_quantity = 1
  /\ Len(inventory_adjustments) = 1


\* the step just taken was a call of resolveAlert or a resolve request
ResolveOrHttpStep == result'.op \in {"resolveAlert", HttpResolve} /\ now' = now

\* C24: resolveAlert(a), called directly or by the resolve request, changes
\* nothing but is_resolved and resolved_at of alert a: the other alerts, the
\* other fields of a, the products and the ledger rows stay as they were,
\* and the notes of the request are stored in no table.
C24_ResolveFrame ==
  [][ ResolveOrHttpStep =>
      /\ UNCHANGED <<products, inventory_adjustments>>
      /\ Len(low_stock_alerts') = Len(low_stock_alerts)
      /\ \A i \in 1..Len(low_stock_alerts) :
            /\ DOMAIN low_stock_alerts'[i] = DOMAIN low_stock_alerts[i]
            /\ IF low_stock_alerts[i].id = result'.id
               THEN low_stock_alerts'[i] =
                      [low_stock_alerts[i] EXCEPT
                         !.is_resolved = low_stock_alerts'[i].is_resolved,
                         !.resolved_at = low_stock_alerts'[i].resolved_at]
               ELSE low_stock_alerts'[i] = low_stock_alerts[i] ]_vars

C24_Witness ==
  /\ result.op = "resolveAlert"
  /\ result.ok
  /\ Len(low_stock_alerts) = 2
  /\ low_stock_alerts[1].id = result.id
  /\ low_stock_alerts[1].is_resolved = 1
  /\ low_stock_alerts[1].current_quantity = 1
  /\ low_stock_alerts[2].is_resolved = 0
  /\ response.status = 400
  /\ Len(inventory_adjustments) = 1

\* the step just taken was a POST /api/admin/inventory/adjustments/bulk request
HttpBulkStep == result'.op = HttpBulk /\ now' = now

\* C28: the bulk request applies no entry when an entry of the batch lacks
\* productId, type, quantity or reason or references a product that does not
\* exist: the request is rejected (400 or 404) without the model being
\* called, and products, ledger and alerts are unchanged.
C28_HttpBulkRejectsWhole ==
  [][ (/\ HttpBulkStep
       /\ \E i \in 1..Len(response'.batch) :
             \/ ~Complete(response'.batch[i])
             \/ response'.batch[i].productId \notin DOMAIN products)
      => (/\ response'.status \in {400, 404}
          /\ ~response'.invoked
          /\ UNCHANGED <<products, inventory_adjustments, low_stock_alerts>>) ]_vars


RECURSIVE Reaches(_, _, _, _)
\* the chain of parent references that starts at category id reaches
\* category c within k steps
Reaches(C, id, c, k) ==
  /\ k > 0
  /\ id \in CategoryIds(C)
  /\ \/ RowOf(C, id).parent_id = c
     \/ Reaches(C, RowOf(C, id).parent_id, c, k - 1)

\* no category is its own parent or an ancestor of itself
Forest(C) == \A id \in CategoryIds(C) : ~Reaches(C, id, id, Len(C))

\* category c and the categories whose chain of parents reaches c
Subtree(C, c) == {c} \cup { id \in CategoryIds(C) : Reaches(C, id, c, Len(C)) }

\* C22: in a hierarchy of any depth, getAllCategoryIds(c) returns c and the
\* categories whose chain of parent references reaches c, each id once, and
\* getProducts(c) selects the active products whose category is in that set.
C22_CategoryExpansion ==
  Forest(categories) =>
    /\ result.op = "getAllCategoryIds" =>
         /\ Range(result.results) = Subtree(categories, result.id)
         /\ Len(result.results) = Cardinality(Subtree(categories, result.id))
    /\ result.op = "getProducts" =>
         /\ Range(result.results) =
              { p \in DOMAIN products :
                  /\ products[p].status = "active"
                  /\ products[p].category_id \in Subtree(categories, result.id) }
         /\ Len(result.results) = Cardinality(Range(result.results))

C22_Witness ==
  /\ Forest(categories)
  /\ Len(categories) = 3
  /\ categories[1].parent_id = CatId(3)
  /\ categories[3].parent_id = CatId(2)
  /\ result.op = "getProducts"
  /\ result.id = CatId(2)
  /\ result.results = <<"p1">>
  /\ products["p2"].status = "inactive"

\* C29: after any sequence of category create, update and bulk-update
\* operations the parent references form a forest, so getBreadcrumbs and
\* getAllCategoryIds terminate for every category.
C29_CategoriesFormForest ==
  /\ Forest(categories)
  /\ \A c \in CategoryIds(categories) :
        /\ Diverges \notin Range(getBreadcrumbs(categories, c, 0))
        /\ Diverges \notin Range(getAllCategoryIds(categories, c, 0))


\* table T holds at most one row per (session_id, product_id)
OneRowPerPair(T) ==
  \A i, j \in 1..Len(T) :
     (T[i].session_id = T[j].session_id /\ T[i].product_id = T[j].product_id) => i = j

\* C23: after any sequence of Wishlist.addItem and Wishlist.removeItem calls
\* the wishlist holds at most one row per (sessionId, productId); addItem for
\* a product already in the session's wishlist returns false and adds no
\* row, and addItem returns true exactly when it inserted a row.
C23_WishlistNoDuplicates ==
  [][ result'.op \in {"Wishlist.addItem", "Wishlist.removeItem"} =>
      /\ OneRowPerPair(wishlist_items')
      /\ result'.op = "Wishlist.addItem" =>
           /\ hasItem(wishlist_items, result'.sessionId, result'.data.productId) =>
                /\ result'.error = NoError
                /\ ~result'.ok
                /\ wishlist_items' = wishlist_items
           /\ result'.ok <=> Len(wishlist_items') = Len(wishlist_items) + 1 ]_vars

\* C30: cart_items holds at most one row per (sessionId, productId) after any
\* number of Cart.addItem calls, also when the lookup and write steps of two
\* calls for the same session and product interleave, and once the calls
\* have returned the quantity of the row is the sum of the quantities added.
C30_CartOneRowPerProduct ==
  /\ OneRowPerPair(cart_items)
  /\ Pending = {} =>
       \A i \in 1..Len(cart_items) :
          cart_items[i].quantity = added[cart_items[i].session_id][cart_items[i].product_id]


====
